---- MODULE Spec2Model ----
(***************************************************************************)
(* A model of project3.py: fetch three datasets, aggregate them            *)
(* (process_airtravel, process_posts, process_text_report) and write the   *)
(* results (CSV, spreadsheet, JSON, text report).                          *)
(*                                                                         *)
(* Representation of Python values:                                        *)
(*   - a character is a one-character string; the few non-ASCII            *)
(*     characters the model needs are named atoms ("U+00B2" is the         *)
(*     superscript two, "U+FFFD" the replacement character, "LF" the line  *)
(*     feed, "0xFF" a byte that is not valid UTF-8);                       *)
(*   - a str is a sequence of characters;                                  *)
(*   - None is NoneVal;                                                    *)
(*   - a dict is a sequence of <<key, value>> pairs in insertion order,    *)
(*     with pairwise distinct keys;                                        *)
(*   - a float rounded to 2 decimals is kept as its number of hundredths.  *)
(***************************************************************************)
EXTENDS Integers, Sequences, FiniteSets, TLC

VARIABLES
    plan,           \* the calls still to make, in order
    done,           \* the calls that have returned normally, in order
    err,            \* the exception that ended the run, "none" while there is none
    csv_bytes,      \* main: the three fetched contents
    json_bytes,
    text_bytes,
    raw_files,      \* data/raw: the file names written by save_raw, in order
    rows,           \* argument of process_airtravel
    air_summary,    \* result of process_airtravel
    posts_data,     \* argument of process_posts
    posts_summary,  \* result of process_posts
    text_str,       \* argument of process_text_report
    text_metrics,   \* result of process_text_report
    csv_out,        \* data/processed/airtravel_yearly_totals.csv
    xlsx_out,       \* data/processed/summary.xlsx
    json_out,       \* data/processed/posts_summary.json
    text_out        \* data/processed/text_report.txt

vars == <<plan, done, err, csv_bytes, json_bytes, text_bytes, raw_files, rows,
          air_summary, posts_data, posts_summary, text_str, text_metrics,
          csv_out, xlsx_out, json_out, text_out>>

----------------------------------------------------------------------------
(* Sequences and dicts *)

Range(s) == {s[i] : i \in 1..Len(s)}

NoneVal == <<"None">>

RECURSIVE Concat(_)
Concat(ss) == IF ss = <<>> THEN <<>> ELSE Head(ss) \o Concat(Tail(ss))

\* sep.join(ss)
RECURSIVE Join(_, _)
Join(sep, ss) ==
    IF ss = <<>> THEN <<>>
    ELSE IF Len(ss) = 1 THEN ss[1]
    ELSE ss[1] \o sep \o Join(sep, Tail(ss))

RECURSIVE SumSeq(_)
SumSeq(s) == IF s = <<>> THEN 0 ELSE Head(s) + SumSeq(Tail(s))

\* d.keys(), in insertion order
Keys(d) == [i \in 1..Len(d) |-> d[i][1]]

HasKey(d, k) == \E i \in 1..Len(d) : d[i][1] = k

\* d.get(k, default)
Get(d, k, default) ==
    IF HasKey(d, k) THEN d[CHOOSE i \in 1..Len(d) : d[i][1] = k][2] ELSE default

\* d[k] = v: an existing key keeps its place, a new key goes last
Put(d, k, v) ==
    IF HasKey(d, k)
    THEN [i \in 1..Len(d) |-> IF d[i][1] = k THEN <<k, v>> ELSE d[i]]
    ELSE Append(d, <<k, v>>)

----------------------------------------------------------------------------
(* Characters and str methods *)

UpperCase == <<"A","B","C","D","E","F","G","H","I","J","K","L","M",
               "N","O","P","Q","R","S","T","U","V","W","X","Y","Z">>
LowerCase == <<"a","b","c","d","e","f","g","h","i","j","k","l","m",
               "n","o","p","q","r","s","t","u","v","w","x","y","z">>
Decimal == <<"0","1","2","3","4","5","6","7","8","9">>

\* The characters of the model in code-point order (what str comparison uses).
CodePoints == <<"LF", " ", "'", ",", "-">> \o Decimal \o UpperCase \o LowerCase
              \o <<"U+00B2", "U+FFFD">>

Ord(c) == CHOOSE i \in 1..Len(CodePoints) : CodePoints[i] = c

\* str.__lt__: lexicographic by code point
RECURSIVE StrLess(_, _)
StrLess(a, b) ==
    IF b = <<>> THEN FALSE
    ELSE IF a = <<>> THEN TRUE
    ELSE IF Head(a) = Head(b) THEN StrLess(Tail(a), Tail(b))
    ELSE Ord(Head(a)) < Ord(Head(b))

LowerChar(c) ==
    IF c \in Range(UpperCase)
    THEN LowerCase[CHOOSE i \in 1..26 : UpperCase[i] = c]
    ELSE c

\* str.lower()
Lower(s) == [i \in 1..Len(s) |-> LowerChar(s[i])]

IsSpace(c) == c \in {" ", "LF"}

RECURSIVE LStrip(_)
LStrip(s) == IF s # <<>> /\ IsSpace(Head(s)) THEN LStrip(Tail(s)) ELSE s

RECURSIVE RStrip(_)
RStrip(s) ==
    IF s # <<>> /\ IsSpace(s[Len(s)]) THEN RStrip(SubSeq(s, 1, Len(s) - 1)) ELSE s

\* str.strip()
Strip(s) == RStrip(LStrip(s))

\* The characters c with c.isdigit(): the decimal digits and, among others,
\* the superscript digits, which int() does not accept.
IsDigitChar(c) == c \in Range(Decimal) \cup {"U+00B2"}

\* str.isdigit(): non-empty and every character a digit
IsDigit(s) == s # <<>> /\ \A i \in 1..Len(s) : IsDigitChar(s[i])

\* int(s) raises ValueError unless s (here already stripped) is made of
\* decimal digits
IntFails(s) == s = <<>> \/ \E i \in 1..Len(s) : s[i] \notin Range(Decimal)

DigitValue(c) == (CHOOSE i \in 1..10 : Decimal[i] = c) - 1

RECURSIVE IntOf(_)
IntOf(s) ==
    IF s = <<>> THEN 0
    ELSE 10 * IntOf(SubSeq(s, 1, Len(s) - 1)) + DigitValue(s[Len(s)])

----------------------------------------------------------------------------
(* Control: the sequence of calls *)

\* The next call is `step` and no exception has been raised.
AtStep(step) == plan # <<>> /\ Head(plan) = step /\ err = "none"

\* The call returns: go on with the next one.
Return(step) ==
    /\ plan' = Tail(plan)
    /\ done' = Append(done, step)
    /\ err' = err

\* A variant: the exception is caught and the run goes on
RaiseAndGoOn(e) ==
    /\ plan' = Tail(plan)
    /\ done' = done
    /\ err' = err

\* The call raises e. Nothing in project3.py catches an exception, so it
\* leaves main: no later call is made.
Raise(e) ==
    /\ plan' = <<>>
    /\ done' = done
    /\ err' = e

Returned(step) == step \in Range(done)

----------------------------------------------------------------------------
(* process_airtravel *)

month == <<"m", "o", "n", "t", "h">>

\* A variant: an explicit check, "if not rows: raise ValueError"
FirstRowErrorChecked(rs) ==
    IF rs = <<>> THEN "ValueError"
    ELSE IF NoneVal \in Range(Keys(rs[1])) THEN "AttributeError"
    ELSE "none"

\* What the first line of the body raises: rows[0] of an empty list is an
\* IndexError; a key None (a long first row read by csv.DictReader) has no
\* lower().
FirstRowError(rs) ==
    IF rs = <<>> THEN "IndexError"
    ELSE IF NoneVal \in Range(Keys(rs[1])) THEN "AttributeError"
    ELSE "none"

\* A variant: the columns of every row, in order of first appearance
RECURSIVE AllKeys(_)
AllKeys(rs) ==
    IF rs = <<>> THEN <<>>
    ELSE LET before == AllKeys(SubSeq(rs, 1, Len(rs) - 1))
         IN  before \o SelectSeq(Keys(rs[Len(rs)]), LAMBDA k : k \notin Range(before))

yearsOfAllRows(rs) == SelectSeq(AllKeys(rs), LAMBDA y : Lower(y) # month)

\* years = [y for y in rows[0].keys() if y.lower() != "month"]
years(rs) == SelectSeq(Keys(rs[1]), LAMBDA y : Lower(y) # month)

\* round(x, 2) of x = num / den, in hundredths: to the nearest hundredth, a
\* tie to the even one. (A tie needs den to be a multiple of 8; the model is
\* exact for fewer than 40 values, where every tie is a binary fraction.)
Round2(num, den) ==
    LET q == (100 * num) \div den
        r == (100 * num) % den
    IN  IF 2 * r > den THEN q + 1
        ELSE IF 2 * r < den THEN q
        ELSE IF q % 2 = 0 THEN q ELSE q + 1

\* The loop over rows and years, from the n-th cell on (row by row, year by
\* year); acc.values is per_year_values, a defaultdict(list).
RECURSIVE Collect(_, _, _, _)
Collect(rs, ys, n, acc) ==
    IF n > Len(rs) * Len(ys) THEN acc
    ELSE
      LET y   == ys[((n - 1) % Len(ys)) + 1]
          raw == Get(rs[((n - 1) \div Len(ys)) + 1], y, <<>>)
      IN  IF raw = NoneVal THEN [acc EXCEPT !.err = "AttributeError"]
          ELSE
            LET val == Strip(raw)
            IN  IF ~IsDigit(val) THEN Collect(rs, ys, n + 1, acc)
                ELSE IF IntFails(val) THEN [acc EXCEPT !.err = "ValueError"]
                ELSE Collect(rs, ys, n + 1,
                       [acc EXCEPT !.values =
                           Put(@, y, Append(Get(@, y, <<>>), IntOf(val)))])

\* The record of one year
Stats(vals) ==
    [months_counted   |-> Len(vals),
     total_passengers |-> SumSeq(vals),
     avg_per_month    |-> IF vals # <<>> THEN Round2(SumSeq(vals), Len(vals)) ELSE 0]

\* The call's outcome: the exception raised ("none" if it returns) and the
\* summary returned.
process_airtravel(rs) ==
    IF FirstRowError(rs) # "none" THEN [err |-> FirstRowError(rs), summary |-> <<>>]
    ELSE
      LET c == Collect(rs, years(rs), 1, [err |-> "none", values |-> <<>>])
      IN  IF c.err # "none" THEN [err |-> c.err, summary |-> <<>>]
          ELSE [err |-> "none",
                summary |-> [i \in 1..Len(c.values) |->
                                <<c.values[i][1], Stats(c.values[i][2])>>]]

----------------------------------------------------------------------------
(* Writers of the tabular summary *)

NoFile == [written |-> FALSE]

\* sorted(summary.items()): by year (keys are distinct, so the records are
\* never compared)
RECURSIVE InsertByYear(_, _)
InsertByYear(s, x) ==
    IF s = <<>> THEN <<x>>
    ELSE IF StrLess(x[1], Head(s)[1]) THEN <<x>> \o s
    ELSE <<Head(s)>> \o InsertByYear(Tail(s), x)

RECURSIVE SortedByYear(_)
SortedByYear(s) ==
    IF s = <<>> THEN <<>>
    ELSE InsertByYear(SortedByYear(SubSeq(s, 1, Len(s) - 1)), s[Len(s)])

\* A variant: reverse=True left out
RECURSIVE InsertByTotalAsc(_, _)
InsertByTotalAsc(s, x) ==
    IF s = <<>> THEN <<x>>
    ELSE IF x[2].total_passengers < Head(s)[2].total_passengers THEN <<x>> \o s
    ELSE <<Head(s)>> \o InsertByTotalAsc(Tail(s), x)

\* sorted(summary.items(), key=total_passengers, reverse=True): stable, equal
\* totals keep the summary's order
RECURSIVE InsertByTotalDesc(_, _)
InsertByTotalDesc(s, x) ==
    IF s = <<>> THEN <<x>>
    ELSE IF x[2].total_passengers > Head(s)[2].total_passengers THEN <<x>> \o s
    ELSE <<Head(s)>> \o InsertByTotalDesc(Tail(s), x)

RECURSIVE SortedByTotalDesc(_)
SortedByTotalDesc(s) ==
    IF s = <<>> THEN <<>>
    ELSE InsertByTotalDesc(SortedByTotalDesc(SubSeq(s, 1, Len(s) - 1)), s[Len(s)])

fieldnames == <<"year", "months_counted", "total_passengers", "avg_per_month">>

\* writer.writerow({"year": year, **stats}): the cells in fieldnames order
CsvRow(year, stats) ==
    [f \in 1..Len(fieldnames) |->
        IF fieldnames[f] = "year" THEN year ELSE stats[fieldnames[f]]]

\* A variant: the years sorted, as write_excel does
write_csv_sorted(summary) ==
    [written |-> TRUE,
     header  |-> fieldnames,
     rows    |-> [i \in 1..Len(summary) |->
                    CsvRow(SortedByYear(summary)[i][1], SortedByYear(summary)[i][2])]]

write_csv_yearly_totals(summary) ==
    [written |-> TRUE,
     header  |-> fieldnames,
     rows    |-> [i \in 1..Len(summary) |-> CsvRow(summary[i][1], summary[i][2])]]

SummarySheet(summary) ==
    LET items == SortedByYear(summary)
    IN  [title  |-> "AirTravel Summary",
         header |-> <<"Year", "Months Counted", "Total Passengers", "Avg Per Month">>,
         rows   |-> [i \in 1..Len(items) |->
                       <<items[i][1], items[i][2].months_counted,
                         items[i][2].total_passengers, items[i][2].avg_per_month>>]]

RankingSheet(summary) ==
    LET items == SortedByTotalDesc(summary)
    IN  [title  |-> "Totals Ranking",
         header |-> <<"Year", "Total Passengers">>,
         rows   |-> [i \in 1..Len(items) |->
                       <<items[i][1], items[i][2].total_passengers>>]]

write_excel(summary) ==
    [written |-> TRUE, ws |-> SummarySheet(summary), ws2 |-> RankingSheet(summary)]

----------------------------------------------------------------------------
(* tokenize, Counter, most_common *)

\* A character the pattern [a-zA-Z']+ matches
IsWordChar(c) == c \in Range(LowerCase) \cup Range(UpperCase) \cup {"'"}

\* The elements of a finite set of integers, ascending
RECURSIVE Ascending(_)
Ascending(S) ==
    IF S = {} THEN <<>>
    ELSE LET m == CHOOSE x \in S : \A y \in S : x <= y
         IN  <<m>> \o Ascending(S \ {m})

\* re.findall(r"[a-zA-Z']+", s): the maximal runs of word characters, left to
\* right. A run starts at a word character that follows none and ends at a
\* word character that none follows.
findall(s) ==
    LET starts == Ascending({i \in 1..Len(s) :
                      IsWordChar(s[i]) /\ (i = 1 \/ ~IsWordChar(s[i - 1]))})
        ends   == Ascending({j \in 1..Len(s) :
                      IsWordChar(s[j]) /\ (j = Len(s) \/ ~IsWordChar(s[j + 1]))})
    IN  [k \in 1..Len(starts) |-> SubSeq(s, starts[k], ends[k])]

tokenize(text) == findall(Lower(text))

\* Counter(items): a dict item -> count, in order of first occurrence
RECURSIVE Counter(_)
Counter(items) ==
    IF items = <<>> THEN <<>>
    ELSE LET c == Counter(SubSeq(items, 1, Len(items) - 1))
             x == items[Len(items)]
         IN  Put(c, x, Get(c, x, 0) + 1)

\* A variant: among equal counts the later item goes first
RECURSIVE InsertByCountTiesFirst(_, _)
InsertByCountTiesFirst(s, x) ==
    IF s = <<>> THEN <<x>>
    ELSE IF x[2] >= Head(s)[2] THEN <<x>> \o s
    ELSE <<Head(s)>> \o InsertByCountTiesFirst(Tail(s), x)

\* sorted(counter.items(), key=count, reverse=True): stable, equal counts
\* keep the counter's order
RECURSIVE InsertByCountDesc(_, _)
InsertByCountDesc(s, x) ==
    IF s = <<>> THEN <<x>>
    ELSE IF x[2] > Head(s)[2] THEN <<x>> \o s
    ELSE <<Head(s)>> \o InsertByCountDesc(Tail(s), x)

RECURSIVE SortedByCountDesc(_)
SortedByCountDesc(s) ==
    IF s = <<>> THEN <<>>
    ELSE InsertByCountDesc(SortedByCountDesc(SubSeq(s, 1, Len(s) - 1)), s[Len(s)])

\* Counter.most_common(n) = heapq.nlargest(n, items, key=count), which is
\* sorted(items, key=count, reverse=True)[:n]
most_common(counter, n) ==
    LET ranked == SortedByCountDesc(counter)
    IN  SubSeq(ranked, 1, IF Len(ranked) < n THEN Len(ranked) ELSE n)

----------------------------------------------------------------------------
(* process_posts, process_text_report *)

\* A userId of the JSON input: an integer n is <<"int", n>>, null is NoneVal.
IntVal(n) == <<"int", n>>

\* words = [w for w in tokenize(all_text) if len(w) > 3]
PostWords(posts) ==
    LET all_text == Join(<<" ">>, [i \in 1..Len(posts) |->
                        Get(posts[i], "title", <<>>) \o <<" ">>
                            \o Get(posts[i], "body", <<>>)])
    IN  SelectSeq(tokenize(all_text), LAMBDA w : Len(w) > 3)

\* A variant: Counter(p["userId"] for p in posts if "userId" in p)
PerUserOfPresent(posts) ==
    Counter([i \in 1..Len(SelectSeq(posts, LAMBDA p : HasKey(p, "userId"))) |->
                Get(SelectSeq(posts, LAMBDA p : HasKey(p, "userId"))[i], "userId", NoneVal)])

\* per_user = Counter([p.get("userId") for p in posts])
PerUser(posts) == Counter([i \in 1..Len(posts) |-> Get(posts[i], "userId", NoneVal)])

process_posts(posts) ==
    LET top_words == most_common(Counter(PostWords(posts)), 15)
    IN  [post_count     |-> Len(posts),
         posts_per_user |-> PerUser(posts),
         top_words      |-> [i \in 1..Len(top_words) |->
                               [word |-> top_words[i][1], count |-> top_words[i][2]]]]

\* [w for w in words if len(w) > 4]
TextWords(text) == SelectSeq(tokenize(text), LAMBDA w : Len(w) > 4)

process_text_report(text) ==
    [characters |-> Len(text),
     word_count |-> Len(tokenize(text)),
     top_words  |-> most_common(Counter(TextWords(text)), 20)]

----------------------------------------------------------------------------
(* write_json, and reading the file back *)

\* str(n) for n >= 0
RECURSIVE StrOfNat(_)
StrOfNat(n) ==
    IF n < 10 THEN <<Decimal[n + 1]>>
    ELSE Append(StrOfNat(n \div 10), Decimal[(n % 10) + 1])

\* A variant: None written as str(None)
JsonKeyStrOfNone(k) ==
    IF k = NoneVal THEN <<"N", "o", "n", "e">>
    ELSE IF k # <<>> /\ k[1] = "int" THEN StrOfNat(k[2])
    ELSE k

\* The key json.dump writes for a dict key: a JSON object's keys are strings,
\* so an int becomes its decimal string and None becomes "null".
JsonKey(k) ==
    IF k = NoneVal THEN <<"n", "u", "l", "l">>
    ELSE IF k # <<>> /\ k[1] = "int" THEN StrOfNat(k[2])
    ELSE k

\* The object json.dump writes for a dict: the keys coerced, in dict order. Two
\* keys coerced to one string are both written.
JsonObject(d) == [i \in 1..Len(d) |-> <<JsonKey(d[i][1]), d[i][2]>>]

\* json.dump(data, f, indent=2) for a posts summary: the document written.
\* ints, strs and lists are written as they are; only dict keys are coerced.
write_json(data) ==
    [written |-> TRUE,
     doc     |-> [post_count     |-> data.post_count,
                  posts_per_user |-> JsonObject(data.posts_per_user),
                  top_words      |-> data.top_words]]

\* The dict json.load builds from a JSON object: a repeated key keeps its
\* first place and its last value.
RECURSIVE DictOfObject(_)
DictOfObject(obj) ==
    IF obj = <<>> THEN <<>>
    ELSE Put(DictOfObject(SubSeq(obj, 1, Len(obj) - 1)),
             obj[Len(obj)][1], obj[Len(obj)][2])

\* json.load of a written posts summary
json_load(file) ==
    [post_count     |-> file.doc.post_count,
     posts_per_user |-> DictOfObject(file.doc.posts_per_user),
     top_words      |-> file.doc.top_words]

----------------------------------------------------------------------------
(* write_text_report *)

\* f"{w:<20}": left-justified in a field of 20
LJust20(w) == IF Len(w) >= 20 THEN w ELSE w \o [i \in 1..(20 - Len(w)) |-> " "]

\* The lines written, each as the parts of its f-string; now is
\* datetime.now().isoformat(timespec="seconds").
write_text_report(metrics, source_name, now) ==
    [written |-> TRUE,
     lines   |-> << <<"Text Report for: ", source_name>>,
                    <<"Generated: ", now>>,
                    <<[i \in 1..60 |-> "-"]>>,
                    <<"Characters: ", metrics.characters>>,
                    <<"Word Count: ", metrics.word_count>>,
                    <<"">>,
                    <<"Top Words (min length 5):">> >>
                 \o [i \in 1..Len(metrics.top_words) |->
                       <<"  ", LJust20(metrics.top_words[i][1]), " ",
                         metrics.top_words[i][2]>>]]

----------------------------------------------------------------------------
(* read_csv_bytes *)

\* bytes.decode("utf-8", errors="replace"): an invalid byte becomes U+FFFD
decode(content) ==
    [i \in 1..Len(content) |-> IF content[i] = "0xFF" THEN "U+FFFD" ELSE content[i]]

\* The pieces of s between the separators sep, from position i on, cur being
\* the piece read so far (the last piece is kept even when empty)
RECURSIVE Pieces(_, _, _, _)
Pieces(s, sep, i, cur) ==
    IF i > Len(s) THEN <<cur>>
    ELSE IF s[i] = sep THEN <<cur>> \o Pieces(s, sep, i + 1, <<>>)
    ELSE Pieces(s, sep, i + 1, Append(cur, s[i]))

\* str.splitlines(): no empty last line after a final line feed
splitlines(s) ==
    IF s = <<>> THEN <<>>
    ELSE IF s[Len(s)] = "LF" THEN Pieces(SubSeq(s, 1, Len(s) - 1), "LF", 1, <<>>)
    ELSE Pieces(s, "LF", 1, <<>>)

\* csv.reader on one line without quotes: an empty line is the empty list
CsvCells(line) == IF line = <<>> THEN <<>> ELSE Pieces(line, ",", 1, <<>>)

\* dict(zip(fieldnames, row)), from the i-th field on
RECURSIVE Zip(_, _, _, _)
Zip(names, row, i, d) ==
    IF i > Len(names) \/ i > Len(row) THEN d
    ELSE Zip(names, row, i + 1, Put(d, names[i], row[i]))

\* d[key] = None for the fields a short row lacks
RECURSIVE RestVal(_, _, _)
RestVal(names, i, d) ==
    IF i > Len(names) THEN d ELSE RestVal(names, i + 1, Put(d, names[i], NoneVal))

\* csv.DictReader.__next__ for one non-empty row: a long row keeps its extra
\* cells as a list under the key None (restkey), a short row gets None
\* (restval) for the fields it lacks
DictRow(names, row) ==
    LET d == Zip(names, row, 1, <<>>)
    IN  IF Len(names) < Len(row)
        THEN Put(d, NoneVal, SubSeq(row, Len(names) + 1, Len(row)))
        ELSE RestVal(names, Len(row) + 1, d)

\* list(csv.DictReader(lines)): the first line gives the field names, empty
\* lines after it are skipped
read_csv_bytes(content) ==
    LET lines == splitlines(decode(content))
        cells == [i \in 1..Len(lines) |-> CsvCells(lines[i])]
    IN  IF cells = <<>> THEN <<>>
        ELSE LET data == SelectSeq(Tail(cells), LAMBDA r : r # <<>>)
             IN  [i \in 1..Len(data) |-> DictRow(cells[1], data[i])]

----------------------------------------------------------------------------
(* The inputs the model draws from *)

MaxRows == 3        \* rows of a one-year table
MaxWideRows == 2    \* rows of a table with several years
MaxPosts == 2       \* posts of a collection
MaxChunks == 3      \* pieces a short text is made of
MaxExtra == 2       \* words appended to a long text

\* All sequences over S of length at most n
SeqsUpTo(S, n) == UNION {[1..k -> S] : k \in 0..n}

Month == <<"M", "o", "n", "t", "h">>
MONTH == <<"M", "O", "N", "T", "H">>
JAN == <<"J", "A", "N">>
Y1958 == <<"1", "9", "5", "8">>
Y1959 == <<"1", "9", "5", "9">>
Y2 == <<"2">>

\* Cells of a one-year table: "1", " 2 ", "10", "08", "x", "", "-1" and the
\* superscript two
TallCells == {<<"1">>, <<" ", "2", " ">>, <<"1", "0">>, <<"0", "8">>, <<"x">>,
              <<>>, <<"-", "1">>, <<"U+00B2">>}

TallRows == {<< <<Month, JAN>>, <<Y1958, v>> >> : v \in TallCells}

\* Cells of a table with several years: "5", "12", "x"
WideCells == {<<"5">>, <<"1", "2">>, <<"x">>}

\* Rows of three shapes: Month,1958,1959; MONTH,2,1959,1958; 1959 alone
WideRows ==
    {<< <<Month, JAN>>, <<Y1958, a>>, <<Y1959, b>> >> : a \in WideCells, b \in WideCells}
    \cup {<< <<MONTH, JAN>>, <<Y2, c>>, <<Y1959, b>>, <<Y1958, a>> >> :
            a \in WideCells, b \in WideCells, c \in WideCells}
    \cup {<< <<Y1959, b>> >> : b \in WideCells}

TableInputs == SeqsUpTo(TallRows, MaxRows) \cup SeqsUpTo(WideRows, MaxWideRows)

\* Texts: "Alpha ", "beta,", "it's ", "ALPHA-", "al", "the ", "gamma "
Chunks == {<<"A", "l", "p", "h", "a", " ">>, <<"b", "e", "t", "a", ",">>,
           <<"i", "t", "'", "s", " ">>, <<"A", "L", "P", "H", "A", "-">>,
           <<"a", "l">>, <<"t", "h", "e", " ">>, <<"g", "a", "m", "m", "a", " ">>}

ShortTexts == {Concat(cs) : cs \in SeqsUpTo(Chunks, MaxChunks)}

\* 25 distinct six-letter words: wordaa, wordab, ..., wordee
Word(i) == <<"w", "o", "r", "d", LowerCase[((i - 1) \div 5) + 1], LowerCase[((i - 1) % 5) + 1]>>

\* The first k words of the pool, then some of the pool's words again
LongTexts ==
    {Join(<<" ">>, [i \in 1..k |-> Word(i)] \o extra) :
        k \in 14..22, extra \in SeqsUpTo({Word(1), Word(16), Word(21), Word(22)}, MaxExtra)}

\* Posts: userId 1, 2, null or absent; title "Alpha beta" or "it's"; body
\* "beta ALPHA", "gamma" or absent
Titles == {<<"A", "l", "p", "h", "a", " ", "b", "e", "t", "a">>, <<"i", "t", "'", "s">>}
Bodies == {<<"b", "e", "t", "a", " ", "A", "L", "P", "H", "A">>, <<"g", "a", "m", "m", "a">>}
Ids    == {<< <<"userId", IntVal(1)>> >>, << <<"userId", IntVal(2)>> >>,
           << <<"userId", NoneVal>> >>, <<>>}

Posts == {u \o << <<"title", t>> >> \o b :
            u \in Ids, t \in Titles, b \in {<< <<"body", x>> >> : x \in Bodies} \cup {<<>>}}

PostInputs == SeqsUpTo(Posts, MaxPosts)

\* One post whose title is the text t
LongPost(t) == << << <<"userId", IntVal(1)>>, <<"title", t>>, <<"body", Word(1)>> >> >>

NoPostsSummary == [post_count |-> 0, posts_per_user |-> <<>>, top_words |-> <<>>]
NoTextMetrics == [characters |-> 0, word_count |-> 0, top_words |-> <<>>]

\* What every run starts from, whatever its plan and its inputs
Blank ==
    /\ done = <<>>
    /\ err = "none"
    /\ csv_bytes = <<>>
    /\ json_bytes = [valid |-> TRUE, value |-> <<>>]
    /\ text_bytes = <<>>
    /\ raw_files = <<>>
    /\ air_summary = <<>>
    /\ posts_summary = NoPostsSummary
    /\ text_metrics = NoTextMetrics
    /\ csv_out = NoFile
    /\ xlsx_out = NoFile
    /\ json_out = NoFile
    /\ text_out = NoFile

----------------------------------------------------------------------------
(* main: what the three URLs may answer *)

\* "Month,1958,1959 / JAN,340,360 / FEB,318,342"
AirCsv ==
    Join(<<"LF">>, << Join(<<",">>, <<Month, Y1958, Y1959>>),
                     Join(<<",">>, <<JAN, <<"3", "4", "0">>, <<"3", "6", "0">>>>),
                     Join(<<",">>, <<<<"F", "E", "B">>, <<"3", "1", "8">>, <<"3", "4", "2">>>>) >>)

\* The contents the CSV URL may return: the table; the table with an empty
\* line and a row holding an invalid byte; the table with a short row; a long
\* first row; nothing
CsvDocs ==
    {AirCsv,
     AirCsv \o <<"LF", "LF">>
         \o Join(<<",">>, <<<<"M", "A", "R">>, <<"0xFF">>, <<" ", "7">>>>) \o <<"LF">>,
     AirCsv \o <<"LF">> \o Join(<<",">>, <<<<"M", "A", "R">>, <<"4">>>>),
     Join(<<",">>, <<Month, Y1958>>) \o <<"LF">> \o Join(<<",">>, <<JAN, <<"5">>, <<"6">>>>),
     <<>>}

\* The contents the JSON URL may return: arrays of posts, or no JSON at all
JsonDocs ==
    {[valid |-> TRUE, value |-> ps] : ps \in SeqsUpTo(Posts, 1)}
    \cup {[valid |-> FALSE, value |-> <<>>]}

TextDocs == {<<>>, <<"A", "l", "p", "h", "a", " ", "0xFF", "a", "l", "p", "h", "a">>}

\* requests.get and raise_for_status: the content, or the exception raised
Responses(docs) ==
    {[error |-> "none", content |-> d] : d \in docs}
    \cup {[error |-> e, content |-> <<>>] : e \in {"ConnectionError", "HTTPError"}}

\* datetime.now().isoformat(timespec="seconds")
Clock == {"2025-01-01T00:00:00", "2025-01-01T00:00:01"}

\* main's calls, in the order it makes them
MainPlan ==
    <<"fetch_csv", "fetch_json", "fetch_text",
      "save_csv", "save_json", "save_text",
      "read_csv_bytes", "process_airtravel",
      "json_loads", "process_posts",
      "decode_text", "process_text_report",
      "write_csv_yearly_totals", "write_excel", "write_json", "write_text_report",
      "complete">>

----------------------------------------------------------------------------
(* The calls *)

outputs == <<csv_out, xlsx_out, json_out, text_out>>
inputs == <<rows, posts_data, text_str>>
results == <<air_summary, posts_summary, text_metrics>>
fetched == <<csv_bytes, json_bytes, text_bytes>>

\* csv_bytes = fetch_to_bytes(CSV_URL)
FetchCsv ==
    /\ AtStep("fetch_csv")
    /\ \E r \in Responses(CsvDocs) :
          IF r.error = "none"
          THEN csv_bytes' = r.content /\ Return("fetch_csv")
          ELSE csv_bytes' = csv_bytes /\ Raise(r.error)
    /\ UNCHANGED <<json_bytes, text_bytes, raw_files, inputs, results, outputs>>

\* json_bytes = fetch_to_bytes(JSON_URL)
FetchJson ==
    /\ AtStep("fetch_json")
    /\ \E r \in Responses(JsonDocs) :
          IF r.error = "none"
          THEN json_bytes' = r.content /\ Return("fetch_json")
          ELSE json_bytes' = json_bytes /\ Raise(r.error)
    /\ UNCHANGED <<csv_bytes, text_bytes, raw_files, inputs, results, outputs>>

\* text_bytes = fetch_to_bytes(TEXT_URL)
FetchText ==
    /\ AtStep("fetch_text")
    /\ \E r \in Responses(TextDocs) :
          IF r.error = "none"
          THEN text_bytes' = r.content /\ Return("fetch_text")
          ELSE text_bytes' = text_bytes /\ Raise(r.error)
    /\ UNCHANGED <<csv_bytes, json_bytes, raw_files, inputs, results, outputs>>

\* save_raw(content, filename): the file is written, or open() raises
SaveRaw(step, filename) ==
    /\ AtStep(step)
    /\ \E ok \in BOOLEAN :
          IF ok
          THEN raw_files' = Append(raw_files, filename) /\ Return(step)
          ELSE raw_files' = raw_files /\ Raise("OSError")
    /\ UNCHANGED <<fetched, inputs, results, outputs>>

\* rows = read_csv_bytes(csv_bytes)
ReadCsv ==
    /\ AtStep("read_csv_bytes")
    /\ rows' = read_csv_bytes(csv_bytes)
    /\ Return("read_csv_bytes")
    /\ UNCHANGED <<fetched, raw_files, posts_data, text_str, results, outputs>>

\* air_summary = process_airtravel(rows)
ProcessAirtravel ==
    /\ AtStep("process_airtravel")
    /\ LET r == process_airtravel(rows)
       IN  IF r.err = "none"
           THEN air_summary' = r.summary /\ Return("process_airtravel")
           ELSE air_summary' = air_summary /\ Raise(r.err)
    /\ UNCHANGED <<fetched, raw_files, inputs, posts_summary, text_metrics, outputs>>

\* posts_data = json.loads(json_bytes.decode("utf-8", errors="replace"))
JsonLoads ==
    /\ AtStep("json_loads")
    /\ IF json_bytes.valid
       THEN posts_data' = json_bytes.value /\ Return("json_loads")
       ELSE posts_data' = posts_data /\ Raise("JSONDecodeError")
    /\ UNCHANGED <<fetched, raw_files, rows, text_str, results, outputs>>

\* posts_summary = process_posts(posts_data)
ProcessPosts ==
    /\ AtStep("process_posts")
    /\ posts_summary' = process_posts(posts_data)
    /\ Return("process_posts")
    /\ UNCHANGED <<fetched, raw_files, inputs, air_summary, text_metrics, outputs>>

\* text_str = text_bytes.decode("utf-8", errors="replace")
DecodeText ==
    /\ AtStep("decode_text")
    /\ text_str' = decode(text_bytes)
    /\ Return("decode_text")
    /\ UNCHANGED <<fetched, raw_files, rows, posts_data, results, outputs>>

\* text_metrics = process_text_report(text_str)
ProcessTextReport ==
    /\ AtStep("process_text_report")
    /\ text_metrics' = process_text_report(text_str)
    /\ Return("process_text_report")
    /\ UNCHANGED <<fetched, raw_files, inputs, air_summary, posts_summary, outputs>>

\* write_csv_yearly_totals(air_summary, CSV_OUT)
WriteCsv ==
    /\ AtStep("write_csv_yearly_totals")
    /\ \E ok \in BOOLEAN :
          IF ok
          THEN csv_out' = write_csv_yearly_totals(air_summary)
               /\ Return("write_csv_yearly_totals")
          ELSE csv_out' = csv_out /\ Raise("OSError")
    /\ UNCHANGED <<fetched, raw_files, inputs, results, xlsx_out, json_out, text_out>>

\* write_excel(air_summary, XLSX_OUT)
WriteExcel ==
    /\ AtStep("write_excel")
    /\ \E ok \in BOOLEAN :
          IF ok
          THEN xlsx_out' = write_excel(air_summary) /\ Return("write_excel")
          ELSE xlsx_out' = xlsx_out /\ Raise("OSError")
    /\ UNCHANGED <<fetched, raw_files, inputs, results, csv_out, json_out, text_out>>

\* write_json(posts_summary, JSON_OUT)
WriteJson ==
    /\ AtStep("write_json")
    /\ \E ok \in BOOLEAN :
          IF ok
          THEN json_out' = write_json(posts_summary) /\ Return("write_json")
          ELSE json_out' = json_out /\ Raise("OSError")
    /\ UNCHANGED <<fetched, raw_files, inputs, results, csv_out, xlsx_out, text_out>>

\* write_text_report(text_metrics, TEXT_OUT, source_name="psf/requests README")
WriteTextReport ==
    /\ AtStep("write_text_report")
    /\ \E ok \in BOOLEAN, now \in Clock :
          IF ok
          THEN text_out' = write_text_report(text_metrics, "psf/requests README", now)
               /\ Return("write_text_report")
          ELSE text_out' = text_out /\ Raise("OSError")
    /\ UNCHANGED <<fetched, raw_files, inputs, results, csv_out, xlsx_out, json_out>>

\* LOGGER.info("=== Project 3 complete ===") and the final print
Complete ==
    /\ AtStep("complete")
    /\ Return("complete")
    /\ UNCHANGED <<fetched, raw_files, inputs, results, outputs>>

----------------------------------------------------------------------------
(* Specifications *)

\* main()
Init ==
    /\ Blank
    /\ plan = MainPlan
    /\ rows = <<>>
    /\ posts_data = <<>>
    /\ text_str = <<>>

Next ==
    \/ FetchCsv
    \/ FetchJson
    \/ FetchText
    \/ SaveRaw("save_csv", "airtravel.csv")
    \/ SaveRaw("save_json", "posts.json")
    \/ SaveRaw("save_text", "requests_readme.txt")
    \/ ReadCsv
    \/ ProcessAirtravel
    \/ JsonLoads
    \/ ProcessPosts
    \/ DecodeText
    \/ ProcessTextReport
    \/ WriteCsv
    \/ WriteExcel
    \/ WriteJson
    \/ WriteTextReport
    \/ Complete

Spec == Init /\ [][Next]_vars

\* process_airtravel on any table, then the two writers of its summary
InitAir ==
    /\ Blank
    /\ plan = <<"process_airtravel", "write_csv_yearly_totals", "write_excel">>
    /\ rows \in TableInputs
    /\ posts_data = <<>>
    /\ text_str = <<>>

NextAir == ProcessAirtravel \/ WriteCsv \/ WriteExcel

SpecAir == InitAir /\ [][NextAir]_vars

\* process_posts on any collection of posts and process_text_report on any
\* text (short inputs one at a time, a long text given to both), then the
\* writer of the posts summary
InitWords ==
    /\ Blank
    /\ plan = <<"process_posts", "process_text_report", "write_json">>
    /\ rows = <<>>
    /\ \/ posts_data \in PostInputs /\ text_str = <<>>
       \/ posts_data = <<>> /\ text_str \in ShortTexts
       \/ \E t \in LongTexts : posts_data = LongPost(t) /\ text_str = t

NextWords == ProcessPosts \/ ProcessTextReport \/ WriteJson

SpecWords == InitWords /\ [][NextWords]_vars

----------------------------------------------------------------------------
(* Properties of process_airtravel, checked under SpecAir *)

\* The call of `step` is over: it has returned or raised.
Acted(step) == step \notin Range(plan)

\* A raw cell whose trimmed value is made of decimal digits only
ValidCell(raw) ==
    LET v == Strip(raw)
    IN  v # <<>> /\ \A i \in 1..Len(v) : v[i] \in Range(Decimal)

\* The numeric columns: those of the first row whose lowercased name is not
\* "month"
NumericColumns(rs) == {k \in Range(Keys(rs[1])) : Lower(k) # month}

\* The rows whose cell in column y is valid (a row without the column has the
\* empty cell)
ValidRows(rs, y) == {i \in 1..Len(rs) : ValidCell(Get(rs[i], y, <<>>))}

RECURSIVE SumOver(_, _, _)
SumOver(rs, y, I) ==
    IF I = {} THEN 0
    ELSE LET i == CHOOSE j \in I : TRUE
         IN  IntOf(Strip(Get(rs[i], y, <<>>))) + SumOver(rs, y, I \ {i})

\* h hundredths is total / n rounded to 2 decimals: no hundredth is nearer
NearestHundredth(h, total, n) ==
    /\ 2 * (h * n - 100 * total) <= n
    /\ 2 * (100 * total - h * n) <= n

\* The record of column y is the one the valid cells of the column give.
ColumnRecordRight(rs, summary, y) ==
    /\ HasKey(summary, y)
    /\ LET st == Get(summary, y, Stats(<<>>))
           I  == ValidRows(rs, y)
       IN  /\ st.months_counted = Cardinality(I)
           /\ st.total_passengers = SumOver(rs, y, I)
           /\ I # {} => NearestHundredth(st.avg_per_month, st.total_passengers,
                                         st.months_counted)

\* C1: for a non-empty table, process_airtravel returns, and for every numeric
\* column with at least one valid value the record has months_counted = the
\* number of rows with a valid value, total_passengers = their sum and
\* avg_per_month = total / count rounded to 2 decimals.
C1_ColumnStatistics ==
    (rows # <<>> /\ ~HasKey(rows[1], NoneVal) /\ Acted("process_airtravel")) =>
        \A y \in NumericColumns(rows) :
            ValidRows(rows, y) # {} =>
                /\ Returned("process_airtravel")
                /\ ColumnRecordRight(rows, air_summary, y)

\* C2: for a non-empty table, a numeric column whose cell is non-digit or
\* empty in every row is in
\* the summary with months_counted = 0, total_passengers = 0 and
\* avg_per_month = 0.0, and nothing is raised.
C2_EmptyColumnRecord ==
    (rows # <<>> /\ ~HasKey(rows[1], NoneVal) /\ Acted("process_airtravel")) =>
        \A y \in NumericColumns(rows) :
            (\A i \in 1..Len(rows) : ~IsDigit(Strip(Get(rows[i], y, <<>>)))) =>
                /\ Returned("process_airtravel")
                /\ HasKey(air_summary, y)
                /\ Get(air_summary, y, Stats(<<>>)) =
                      [months_counted |-> 0, total_passengers |-> 0, avg_per_month |-> 0]

\* C6, as claimed: on an empty row sequence process_airtravel fails with
\* InputError.
C6_InputError ==
    (rows = <<>> /\ Acted("process_airtravel")) => err = "InputError"

\* C6, amended: on an empty row sequence process_airtravel fails with
\* IndexError (raised by rows[0]); it returns no summary and no writer runs.
C6_IndexError ==
    (rows = <<>> /\ Acted("process_airtravel")) =>
        /\ err = "IndexError"
        /\ ~Returned("process_airtravel")
        /\ air_summary = <<>>
        /\ ~csv_out.written /\ ~xlsx_out.written

C6_Witness == rows = <<>> /\ Acted("process_airtravel") /\ err # "none"

\* C10: every key of the summary is a column of the first row whose
\* lowercased name is not "month", and the record of a key counts and sums the
\* cells of that column alone: a column that only later rows have is no key
\* and adds to no count or total.
C10_ColumnsOfFirstRow ==
    Returned("process_airtravel") =>
        \A i \in 1..Len(air_summary) :
            /\ air_summary[i][1] \in NumericColumns(rows)
            /\ ColumnRecordRight(rows, air_summary, air_summary[i][1])

\* A later row has a column the first row lacks, with a valid value in it.
C10_Witness ==
    /\ Returned("process_airtravel")
    /\ air_summary # <<>>
    /\ \E i \in 2..Len(rows) : \E k \in Range(Keys(rows[i])) :
          /\ ~HasKey(rows[1], k)
          /\ Lower(k) # month
          /\ ValidCell(Get(rows[i], k, <<>>))

----------------------------------------------------------------------------
(* Properties of the writers of the tabular summary, checked under SpecAir *)

\* C7: write_excel puts one row per year of the summary on each sheet; on
\* "AirTravel Summary" the years ascend in string order, on "Totals Ranking"
\* the totals do not increase and each row carries its year's own total.
C7_SheetsSorted ==
    xlsx_out.written =>
        LET r1 == xlsx_out.ws.rows
            r2 == xlsx_out.ws2.rows
        IN  /\ xlsx_out.ws.title = "AirTravel Summary"
            /\ xlsx_out.ws2.title = "Totals Ranking"
            /\ Len(r1) = Len(air_summary)
            /\ Len(r2) = Len(air_summary)
            /\ \A i \in 1..Len(r1) :
                  /\ HasKey(air_summary, r1[i][1])
                  /\ LET st == Get(air_summary, r1[i][1], Stats(<<>>))
                     IN  r1[i] = <<r1[i][1], st.months_counted, st.total_passengers,
                                   st.avg_per_month>>
            /\ \A i \in 1..(Len(r1) - 1) : StrLess(r1[i][1], r1[i + 1][1])
            /\ \A i \in 1..Len(r2) :
                  /\ HasKey(air_summary, r2[i][1])
                  /\ r2[i][2] = Get(air_summary, r2[i][1], Stats(<<>>)).total_passengers
            /\ \A i, j \in 1..Len(r2) : i # j => r2[i][1] # r2[j][1]
            /\ \A i \in 1..(Len(r2) - 1) : r2[i][2] >= r2[i + 1][2]

\* Three years, neither sheet in the summary's order nor in the other's.
C7_Witness ==
    /\ xlsx_out.written
    /\ Len(air_summary) = 3
    /\ xlsx_out.ws.rows[1][1] # air_summary[1][1]
    /\ xlsx_out.ws2.rows[1][1] # air_summary[1][1]
    /\ xlsx_out.ws2.rows[1][1] # xlsx_out.ws.rows[1][1]
    /\ xlsx_out.ws2.rows[1][2] > xlsx_out.ws2.rows[3][2]

\* C8: write_csv_yearly_totals writes the header
\* year,months_counted,total_passengers,avg_per_month and then one row per
\* year of the summary, in the summary's own order; for an empty summary the
\* header alone.
C8_CsvInSummaryOrder ==
    csv_out.written =>
        /\ csv_out.header = <<"year", "months_counted", "total_passengers", "avg_per_month">>
        /\ Len(csv_out.rows) = Len(air_summary)
        /\ \A i \in 1..Len(air_summary) :
              csv_out.rows[i] = <<air_summary[i][1],
                                  air_summary[i][2].months_counted,
                                  air_summary[i][2].total_passengers,
                                  air_summary[i][2].avg_per_month>>

\* A summary whose years are not in ascending order is written as it is.
C8_Witness ==
    /\ csv_out.written
    /\ Len(air_summary) >= 2
    /\ StrLess(air_summary[2][1], air_summary[1][1])
    /\ csv_out.rows[1][1] = air_summary[1][1]

----------------------------------------------------------------------------
(* Properties of process_posts, process_text_report and write_json, checked
   under SpecWords *)

\* C4: post_count is the number of posts given, and the values of
\* posts_per_user add up to it.
C4_PostCount ==
    Returned("process_posts") =>
        /\ posts_summary.post_count = Len(posts_data)
        /\ SumSeq([i \in 1..Len(posts_summary.posts_per_user) |->
                      posts_summary.posts_per_user[i][2]]) = posts_summary.post_count

\* Two posts, one of them without a userId
C4_Witness ==
    /\ Returned("process_posts")
    /\ Len(posts_data) = 2
    /\ \E i \in 1..2 : ~HasKey(posts_data[i], "userId")
    /\ \E i \in 1..2 : HasKey(posts_data[i], "userId")
    /\ Len(posts_summary.posts_per_user) = 2

\* The tokens longer than `threshold`, in stream order
Qualifying(tokens, threshold) == SelectSeq(tokens, LAMBDA w : Len(w) > threshold)

Occurrences(Q, w) == Cardinality({i \in 1..Len(Q) : Q[i] = w})

FirstIndex(Q, w) == CHOOSE i \in 1..Len(Q) : Q[i] = w /\ \A j \in 1..(i - 1) : Q[j] # w

\* a ranks before b: more occurrences, or as many and an earlier first one
RanksBefore(Q, a, b) ==
    \/ Occurrences(Q, a) > Occurrences(Q, b)
    \/ Occurrences(Q, a) = Occurrences(Q, b) /\ FirstIndex(Q, a) < FirstIndex(Q, b)

\* L, a list of <<word, count>>, is the first `cap` entries of the ranking of
\* the distinct tokens of Q.
IsTopOf(L, Q, cap) ==
    /\ Len(L) = (IF Cardinality(Range(Q)) < cap THEN Cardinality(Range(Q)) ELSE cap)
    /\ \A i \in 1..Len(L) : L[i][1] \in Range(Q) /\ L[i][2] = Occurrences(Q, L[i][1])
    /\ \A i \in 1..(Len(L) - 1) : RanksBefore(Q, L[i][1], L[i + 1][1])
    /\ \A i \in 1..(Len(L) - 1) : L[i][2] >= L[i + 1][2]
    /\ \A i, j \in 1..Len(L) : i # j => L[i][1] # L[j][1]
    /\ \A w \in Range(Q) \ {L[i][1] : i \in 1..Len(L)} :
          \A i \in 1..Len(L) : RanksBefore(Q, L[i][1], w)

\* The text process_posts tokenizes: every title + " " + body, joined by " "
AllText(posts) ==
    Join(<<" ">>, [i \in 1..Len(posts) |->
            Get(posts[i], "title", <<>>) \o <<" ">> \o Get(posts[i], "body", <<>>)])

\* C5: top_words of process_posts is the first 15 entries of the ranking (by
\* count descending, ties by first occurrence) of the distinct tokens longer
\* than 3, and top_words of process_text_report the first 20 of those longer
\* than 4: never more than the cap, counts not increasing, no word twice, no
\* word at or below the threshold.
C5_TopWords ==
    /\ Returned("process_posts") =>
          LET L == [i \in 1..Len(posts_summary.top_words) |->
                      <<posts_summary.top_words[i].word, posts_summary.top_words[i].count>>]
          IN  /\ IsTopOf(L, Qualifying(tokenize(AllText(posts_data)), 3), 15)
              /\ Len(L) <= 15
              /\ \A i \in 1..Len(L) : Len(L[i][1]) > 3
    /\ Returned("process_text_report") =>
          LET L == text_metrics.top_words
          IN  /\ IsTopOf(L, Qualifying(tokenize(text_str), 4), 20)
              /\ Len(L) <= 20
              /\ \A i \in 1..Len(L) : Len(L[i][1]) > 4

\* Both lists are full and have dropped words; a word first seen late leads
\* the text's list by its count, and words of equal count follow.
C5_Witness ==
    /\ Returned("process_posts") /\ Returned("process_text_report")
    /\ Len(posts_summary.top_words) = 15
    /\ Len(text_metrics.top_words) = 20
    /\ Cardinality(Range(Qualifying(tokenize(text_str), 4))) > 20
    /\ text_metrics.top_words[1] = <<Word(21), 2>>
    /\ text_metrics.top_words[2] = <<Word(1), 1>>
    /\ text_metrics.top_words[3] = <<Word(2), 1>>

\* d1 and d2 are equal dicts (key order aside).
SameDict(d1, d2) == Len(d1) = Len(d2) /\ Range(d1) = Range(d2)

\* C3, as claimed: the written JSON parsed back equals the summary.
C3_RoundTrip ==
    json_out.written =>
        /\ json_load(json_out).post_count = posts_summary.post_count
        /\ json_load(json_out).top_words = posts_summary.top_words
        /\ SameDict(json_load(json_out).posts_per_user, posts_summary.posts_per_user)

\* key, a key of the parsed JSON, is the string of the userId k: the decimal
\* digits of an integer, "null" for null
IsStringOf(key, k) ==
    IF k = NoneVal THEN key = <<"n", "u", "l", "l">>
    ELSE /\ key # <<>>
         /\ \A i \in 1..Len(key) : key[i] \in Range(Decimal)
         /\ (Len(key) > 1 => key[1] # "0")
         /\ IntOf(key) = k[2]

\* C3, amended: the written JSON parsed back equals the summary (key order
\* aside) except that every key of posts_per_user comes back as a string: an
\* integer as its decimal digits, null as "null".
C3_RoundTripStringKeys ==
    json_out.written =>
        LET back == json_load(json_out)
        IN  /\ back.post_count = posts_summary.post_count
            /\ back.top_words = posts_summary.top_words
            /\ Len(back.posts_per_user) = Len(posts_summary.posts_per_user)
            /\ \A e \in Range(posts_summary.posts_per_user) :
                  \E b \in Range(back.posts_per_user) :
                      b[2] = e[2] /\ IsStringOf(b[1], e[1])

\* A written summary with an integer userId and a null one
C3_Witness ==
    /\ json_out.written
    /\ HasKey(posts_summary.posts_per_user, NoneVal)
    /\ HasKey(posts_summary.posts_per_user, IntVal(2))
    /\ posts_summary.top_words # <<>>

----------------------------------------------------------------------------
(* Properties of main, checked under Spec *)

\* In every state: the calls made so far are the first calls of main's order;
\* a file is written only by its writer; completion is reported only with the
\* four outputs written and no exception.
C9_Order ==
    /\ Len(done) <= Len(MainPlan)
    /\ \A i \in 1..Len(done) : done[i] = MainPlan[i]
    /\ csv_out.written => Returned("write_csv_yearly_totals")
    /\ xlsx_out.written => Returned("write_excel")
    /\ json_out.written => Returned("write_json")
    /\ text_out.written => Returned("write_text_report")
    /\ Returned("complete") =>
          /\ csv_out.written /\ xlsx_out.written /\ json_out.written /\ text_out.written
          /\ err = "none"
    /\ err # "none" => ~Returned("complete")

\* In every step: once a call has failed nothing is called, written or
\* computed any more.
C9_Halted ==
    err # "none" => UNCHANGED <<done, err, raw_files, inputs, results, outputs>>

\* C9: main makes its calls in one fixed order; once a fetch, an analysis or
\* a write fails no later call is made and no output is written, and
\* completion is reported only after the four outputs are written.
C9_FailureHalts == []C9_Order /\ [][C9_Halted]_vars

\* The spreadsheet writer failed after the CSV was written: the run is over
\* with two outputs missing and no completion.
C9_Witness ==
    /\ err = "OSError"
    /\ Returned("write_csv_yearly_totals")
    /\ csv_out.written
    /\ ~xlsx_out.written /\ ~json_out.written /\ ~text_out.written
    /\ plan = <<>>

====
